---------------------------- MODULE Spec2Model ----------------------------
(***************************************************************************)
(* A model of dhcpd-parser: the tokenizer (src/src/lex.rs), the top-level  *)
(* and lease-body parsers (src/src/parser.rs, src/src/leases.rs) and the   *)
(* active-lease query (src/src/leases.rs).                                 *)
(*                                                                         *)
(* Text is a sequence of characters, a character a one-character string.   *)
(* Option<T> is a sequence of length at most one: None is << >> and        *)
(* Some(v) is <<v>>.                                                       *)
(***************************************************************************)
EXTENDS Integers, Sequences, FiniteSets

VARIABLES
    input,      \* the text handed to parse
    src,        \* the blocks the text was written from (<< >> for free text)
    pos,        \* lex: index of the character the iterator peeks at
    tokens,     \* lex: the token vector built so far
    lexres,     \* lex: "run" | "ok" | "err"
    pc,         \* "lex" | "unwrap" | "config" | "lease" | "query"
    tpos,       \* parse_config / parse_lease: index of the token peeked at
    leases,     \* parse_config: the Leases collection
    lease,      \* parse_config: the lease of the block being parsed
    outcome,    \* of parse: "none" | "ok" | "err" | "panic"
    errmsg,     \* the error (or panic) message and the field it names
    ret,        \* Option<Leases>: the collection parse returned
    qres        \* the last query made and its answer

vars == <<input, src, pos, tokens, lexres, pc, tpos, leases, lease,
          outcome, errmsg, ret, qres>>

lexVars == <<pos, tokens, lexres>>
parseVars == <<tpos, leases, lease>>

None == << >>
Some(v) == <<v>>

\* An error message: its text and the field name formatted into it ("" when none).
Msg(text, name) == <<text, name>>
NoMsg == Msg("", "")

(***************************************************************************)
(* Bounds of the model.                                                    *)
(***************************************************************************)
MaxLen == 4          \* free text: characters
MaxSpin == 2         \* tokens a non-consuming lex loop may add before the model stops it
MaxFrags == 4        \* free token text: fragments
MaxBlocks == 2       \* written documents: lease blocks
MaxStmts == 2        \* written documents: statements in the one block
MaxLeases == 2       \* query: leases in the collection
MaxDate == 3         \* query: instants 0..MaxDate

(***************************************************************************)
(* Tokens: LexItem.                                                        *)
(***************************************************************************)
Paren(c) == [kind |-> "Paren", kw |-> "", w |-> <<c>>]
Endl == [kind |-> "Endl", kw |-> "", w |-> << >>]
Word(s) == [kind |-> "Word", kw |-> "", w |-> s]
Opt(k) == [kind |-> "Opt", kw |-> k, w |-> << >>]
Decl(k) == [kind |-> "Decl", kw |-> k, w |-> << >>]

LeaseKeywords ==
    {"ClientHostname", "Ends", "Hardware", "Hostname", "Starts", "Uid", "Tstp",
     "Tsfp", "Atsfp", "Cltt", "Binding", "State", "Next", "Rewind", "Set"}

LeaseKeywordToString(k) ==
    CASE k = "ClientHostname" -> <<"c","l","i","e","n","t","-","h","o","s","t","n","a","m","e">>
      [] k = "Ends" -> <<"e","n","d","s">>
      [] k = "Hardware" -> <<"h","a","r","d","w","a","r","e">>
      [] k = "Hostname" -> <<"h","o","s","t","n","a","m","e">>
      [] k = "Starts" -> <<"s","t","a","r","t","s">>
      [] k = "Uid" -> <<"u","i","d">>
      [] k = "Tstp" -> <<"t","s","t","p">>
      [] k = "Tsfp" -> <<"t","s","f","p">>
      [] k = "Atsfp" -> <<"a","t","s","f","p">>
      [] k = "Cltt" -> <<"c","l","t","t">>
      [] k = "Binding" -> <<"b","i","n","d","i","n","g">>
      [] k = "State" -> <<"s","t","a","t","e">>
      [] k = "Next" -> <<"n","e","x","t">>
      [] k = "Rewind" -> <<"r","e","w","i","n","d">>
      [] k = "Set" -> <<"s","e","t">>

\* LeaseKeyword::from: the keyword spelled s, "" when s is none (the Err case).
LeaseKeywordFrom(s) ==
    CASE s = <<"c","l","i","e","n","t","-","h","o","s","t","n","a","m","e">> -> "ClientHostname"
      [] s = <<"e","n","d","s">> -> "Ends"
      [] s = <<"h","a","r","d","w","a","r","e">> -> "Hardware"
      [] s = <<"h","o","s","t","n","a","m","e">> -> "Hostname"
      [] s = <<"s","t","a","r","t","s">> -> "Starts"
      [] s = <<"t","s","t","p">> -> "Tstp"
      [] s = <<"t","s","f","p">> -> "Tsfp"
      [] s = <<"a","t","s","f","p">> -> "Atsfp"
      [] s = <<"c","l","t","t">> -> "Cltt"
      [] s = <<"u","i","d">> -> "Uid"
      [] s = <<"b","i","n","d","i","n","g">> -> "Binding"
      [] s = <<"s","t","a","t","e">> -> "State"
      [] s = <<"n","e","x","t">> -> "Next"
      [] s = <<"r","e","w","i","n","d">> -> "Rewind"
      [] s = <<"s","e","t">> -> "Set"
      [] OTHER -> ""

ConfigKeywordToString(k) == <<"l","e","a","s","e">>

\* ConfigKeyword::from: "Lease", or "" for the Err case.
ConfigKeywordFrom(s) == IF s = <<"l","e","a","s","e">> THEN "Lease" ELSE ""

\* Display for LexItem.
ToString(t) ==
    CASE t.kind = "Paren" -> t.w
      [] t.kind = "Word" -> t.w
      [] t.kind = "Opt" -> LeaseKeywordToString(t.kw)
      [] t.kind = "Decl" -> ConfigKeywordToString(t.kw)
      [] t.kind = "Endl" -> <<";">>

(***************************************************************************)
(* The tokenizer.                                                          *)
(***************************************************************************)
Brackets == {"(", ")", "[", "]", "{", "}"}

\* char::is_whitespace, over the characters the model writes.
IsWhitespace(c) == c \in {" ", "\n", "\t", "\r", "\f"}

\* get_word: the index the iterator stops at, reading from i.
RECURSIVE WordEnd(_, _)
WordEnd(s, i) ==
    IF i > Len(s) \/ IsWhitespace(s[i]) \/ s[i] = ";" THEN i ELSE WordEnd(s, i + 1)

get_word(s, i) == [w |-> SubSeq(s, i, WordEnd(s, i) - 1), pos |-> WordEnd(s, i)]

\* The '#' arm's inner loop: the index of the next newline, or past the end.
RECURSIVE CommentEnd(_, _)
CommentEnd(s, i) ==
    IF i > Len(s) \/ s[i] = "\n" THEN i ELSE CommentEnd(s, i + 1)

\* parse_double_quoted's loop, the iterator at i and result holding acc.
RECURSIVE QuotedLoop(_, _, _)
QuotedLoop(s, i, acc) ==
    IF i > Len(s) THEN [ok |-> FALSE, w |-> acc, pos |-> i]
    ELSE IF s[i] = "\\" THEN
        IF i + 1 > Len(s) THEN [ok |-> FALSE, w |-> acc, pos |-> i + 1]
        ELSE IF s[i + 1] = "\\" THEN QuotedLoop(s, i + 2, Append(acc, "\\"))
        ELSE IF s[i + 1] = "\"" THEN QuotedLoop(s, i + 2, Append(acc, "\""))
        ELSE QuotedLoop(s, i + 2, acc \o <<"\\", s[i + 1]>>)
    ELSE IF s[i] = "\"" THEN [ok |-> TRUE, w |-> acc, pos |-> i + 1]
    ELSE QuotedLoop(s, i + 1, Append(acc, s[i]))

\* parse_double_quoted's loop pushing only the escaped character of any escape.
RECURSIVE QuotedLoopDrop(_, _, _)
QuotedLoopDrop(s, i, acc) ==
    IF i > Len(s) THEN [ok |-> FALSE, w |-> acc, pos |-> i]
    ELSE IF s[i] = "\\" THEN
        IF i + 1 > Len(s) THEN [ok |-> FALSE, w |-> acc, pos |-> i + 1]
        ELSE QuotedLoopDrop(s, i + 2, Append(acc, s[i + 1]))
    ELSE IF s[i] = "\"" THEN [ok |-> TRUE, w |-> acc, pos |-> i + 1]
    ELSE QuotedLoopDrop(s, i + 1, Append(acc, s[i]))

parse_double_quoted_drop(s, i) == QuotedLoopDrop(s, i + 1, << >>)

\* parse_double_quoted, the iterator at the opening quote.
parse_double_quoted(s, i) == QuotedLoop(s, i + 1, << >>)

\* The classification of a bare word: declaration keywords, then lease keywords.
Classify(w) ==
    IF ConfigKeywordFrom(w) # "" THEN Decl(ConfigKeywordFrom(w))
    ELSE IF LeaseKeywordFrom(w) # "" THEN Opt(LeaseKeywordFrom(w))
    ELSE Word(w)

\* One iteration of lex's main loop, the iterator at i <= Len(s) and result = toks.
LexIter(s, i, toks) ==
    LET c == s[i] IN
    IF c \in Brackets THEN [res |-> "run", pos |-> i + 1, tokens |-> Append(toks, Paren(c))]
    ELSE IF c = "#" THEN [res |-> "run", pos |-> CommentEnd(s, i), tokens |-> toks]
    ELSE IF c \in {" ", "\n", "\t"} THEN [res |-> "run", pos |-> i + 1, tokens |-> toks]
    ELSE IF c = "\"" THEN
        LET q == parse_double_quoted(s, i) IN
        IF q.ok THEN [res |-> "run", pos |-> q.pos, tokens |-> Append(toks, Word(q.w))]
        ELSE [res |-> "err", pos |-> q.pos, tokens |-> toks]
    ELSE IF c = ";" THEN [res |-> "run", pos |-> i + 1, tokens |-> Append(toks, Endl)]
    ELSE LET g == get_word(s, i) IN
         [res |-> "run", pos |-> g.pos, tokens |-> Append(toks, Classify(g.w))]

LexRunning == pc = "lex" /\ lexres = "run" /\ pos <= Len(input)

LexApply ==
    LET r == LexIter(input, pos, tokens) IN
    /\ pos' = r.pos
    /\ tokens' = r.tokens
    /\ lexres' = r.res
    /\ pc' = IF r.res = "err" THEN "unwrap" ELSE "lex"
    /\ UNCHANGED <<input, src, parseVars, outcome, errmsg, ret, qres>>

LexParen == LexRunning /\ input[pos] \in Brackets /\ LexApply
LexComment == LexRunning /\ input[pos] = "#" /\ LexApply
LexSpace == LexRunning /\ input[pos] \in {" ", "\n", "\t"} /\ LexApply
LexQuoted == LexRunning /\ input[pos] = "\"" /\ LexApply
LexEndl == LexRunning /\ input[pos] = ";" /\ LexApply
\* The model stops a loop that adds tokens without reading after MaxSpin of them.
LexWord ==
    /\ LexRunning
    /\ input[pos] \notin Brackets \cup {"#", " ", "\n", "\t", "\"", ";"}
    /\ Len(tokens) < Len(input) + MaxSpin
    /\ LexApply

\* The main loop ends: lex returns Ok(result).
LexDone ==
    /\ pc = "lex" /\ lexres = "run" /\ pos > Len(input)
    /\ lexres' = "ok"
    /\ pc' = "unwrap"
    /\ UNCHANGED <<input, src, pos, tokens, parseVars, outcome, errmsg, ret, qres>>

\* parse: lex(input).unwrap().
ParseUnwrap ==
    /\ pc = "unwrap" /\ outcome = "none"
    /\ IF lexres = "ok"
       THEN /\ pc' = "config"
            /\ UNCHANGED <<outcome, errmsg>>
       ELSE /\ pc' = pc
            /\ outcome' = "panic"
            /\ errmsg' = Msg("called Result::unwrap() on an Err value", "")
    /\ UNCHANGED <<input, src, lexVars, parseVars, ret, qres>>

LexNext ==
    \/ LexParen
    \/ LexComment
    \/ LexSpace
    \/ LexQuoted
    \/ LexEndl
    \/ LexWord
    \/ LexDone
    \/ ParseUnwrap

\* lex: the main loop run from i with result = toks, [ok, tokens].
RECURSIVE LexFrom(_, _, _)
LexFrom(s, i, toks) ==
    IF i > Len(s) THEN [ok |-> TRUE, tokens |-> toks]
    ELSE LET r == LexIter(s, i, toks) IN
         IF r.res = "err" THEN [ok |-> FALSE, tokens |-> << >>]
         ELSE LexFrom(s, r.pos, r.tokens)

lex(s) == LexFrom(s, 1, << >>)

(***************************************************************************)
(* The state after construction.                                           *)
(***************************************************************************)
\* Lease::new with the binding state Active.
LeaseDefaultActive ==
    [ip |-> <<"l","o","c","a","l","h","o","s","t">>,
     starts |-> None, ends |-> None, tstp |-> None,
     tsfp |-> None, atsfp |-> None, cltt |-> None,
     hardware |-> None, uid |-> None, client_hostname |-> None, hostname |-> None,
     binding_state |-> "Active",
     next_binding_state |-> None, rewind_binding_state |-> None,
     vendor_class_identifier |-> None]

\* Lease::new (parse_config's Lease::default()).
LeaseDefault ==
    [ip |-> <<"l","o","c","a","l","h","o","s","t">>,
     starts |-> None, ends |-> None, tstp |-> None,
     tsfp |-> None, atsfp |-> None, cltt |-> None,
     hardware |-> None, uid |-> None, client_hostname |-> None, hostname |-> None,
     binding_state |-> "Free",
     next_binding_state |-> None, rewind_binding_state |-> None,
     vendor_class_identifier |-> None]

Start(text, blocks) ==
    /\ input = text
    /\ src = blocks
    /\ pos = 1
    /\ tokens = << >>
    /\ lexres = "run"
    /\ pc = "lex"
    /\ tpos = 1
    /\ leases = << >>
    /\ lease = LeaseDefault
    /\ outcome = "none"
    /\ errmsg = NoMsg
    /\ ret = None
    /\ qres = None


(***************************************************************************)
(* The query layer: Lease::is_active_at and LeasesMethods::active_by.      *)
(* An instant (the calendar type Date) is a number, ordered as numbers.    *)
(***************************************************************************)
\* is_active_at with both comparisons made non-strict.
is_active_at_exclusive(l, when) ==
    IF l.starts # None /\ l.starts[1] >= when THEN FALSE
    ELSE IF l.ends # None /\ l.ends[1] <= when THEN FALSE
    ELSE TRUE

is_active_at(l, when) ==
    IF l.starts # None /\ l.starts[1] > when THEN FALSE
    ELSE IF l.ends # None /\ l.ends[1] < when THEN FALSE
    ELSE TRUE

LeasesFields == {"ClientHostname", "Hostname", "LeasedIP", "MAC"}

\* LeasesField::value_getter, applied to l.
value_getter(field, l) ==
    CASE field = "ClientHostname" -> l.client_hostname
      [] field = "Hostname" -> l.hostname
      [] field = "LeasedIP" -> Some(l.ip)
      [] field = "MAC" -> IF l.hardware # None THEN Some(l.hardware[1].mac) ELSE None

Reverse(ls) == [i \in 1..Len(ls) |-> ls[Len(ls) + 1 - i]]

\* The for loop of active_by over ls, from its i-th element on.
RECURSIVE ActiveByLoop(_, _, _, _, _)
ActiveByLoop(ls, i, field, value, at) ==
    IF i > Len(ls) THEN None
    ELSE IF /\ is_active_at(ls[i], at)
            /\ ls[i].binding_state # "Abandoned"
            /\ value_getter(field, ls[i]) # None
            /\ value_getter(field, ls[i])[1] = value
    THEN Some(ls[i])
    ELSE ActiveByLoop(ls, i + 1, field, value, at)

\* active_by without the reversal: the first match in declaration order.
active_by_first(coll, field, value, at) == ActiveByLoop(coll, 1, field, value, at)

active_by(coll, field, value, at) == ActiveByLoop(Reverse(coll), 1, field, value, at)

Instants == 0..MaxDate

\* The queries only read the collection, so a behaviour makes one.
CanQuery == pc = "query" /\ qres = None

Answer(op, field, value, at, idx, found, active) ==
    Some([op |-> op, field |-> field, value |-> value, at |-> at, idx |-> idx,
          found |-> found, active |-> active])

QueryActiveBy ==
    /\ CanQuery
    /\ \E field \in LeasesFields, value \in {<<"a">>, <<"b">>}, at \in Instants :
          qres' = Answer("active_by", field, value, at, 0,
                         active_by(leases, field, value, at), FALSE)
    /\ UNCHANGED <<input, src, lexVars, pc, parseVars, outcome, errmsg, ret>>

QueryIsActiveAt ==
    /\ CanQuery
    /\ \E i \in 1..Len(leases), at \in Instants :
          qres' = Answer("is_active_at", "", << >>, at, i, None, is_active_at(leases[i], at))
    /\ UNCHANGED <<input, src, lexVars, pc, parseVars, outcome, errmsg, ret>>

QueryNext ==
    \/ QueryActiveBy
    \/ QueryIsActiveAt

(***************************************************************************)
(* The lease-body parser: parse_date, parse_binding_state, parse_lease.    *)
(* An Option<&LexItem> peeked at index p is Some iff p <= Len(toks).       *)
(***************************************************************************)
HasTok(toks, p) == p <= Len(toks)
TokIs(toks, p, t) == HasTok(toks, p) /\ toks[p] = t

\* The calendar type's constructor, Date::from(weekday, date, time): an instant
\* is a number, a date text is valid iff it is one digit, and the digit is the
\* instant.
Digits == <<"0", "1", "2", "3", "4", "5", "6", "7", "8", "9">>

DateFrom(weekday, date, time) ==
    IF Len(date) = 1 /\ \E n \in 1..Len(Digits) : Digits[n] = date[1]
    THEN [ok |-> TRUE, val |-> (CHOOSE n \in 1..Len(Digits) : Digits[n] = date[1]) - 1]
    ELSE [ok |-> FALSE, val |-> 0]

\* unquote taking off one pair of bounding quotes only.
unquote_trim(hn) ==
    IF Len(hn) >= 2 /\ hn[1] = "\"" /\ hn[Len(hn)] = "\"" THEN SubSeq(hn, 2, Len(hn) - 1)
    ELSE hn

\* unquote: hn.replace("\"", "").
unquote(hn) == SelectSeq(hn, LAMBDA c : c # "\"")

\* parse_date, the iterator at p: [ok, pos, val, msg], pos where the iterator is left.
parse_date(toks, p, name) ==
    IF ~HasTok(toks, p)
    THEN [ok |-> FALSE, pos |-> p, val |-> 0, msg |-> Msg("Weekday for date expected", name)]
    ELSE IF ~HasTok(toks, p + 1)
    THEN [ok |-> FALSE, pos |-> p + 1, val |-> 0, msg |-> Msg("Date for date expected", name)]
    ELSE IF ~HasTok(toks, p + 2)
    THEN [ok |-> FALSE, pos |-> p + 2, val |-> 0, msg |-> Msg("Time for date expected", name)]
    ELSE IF ~HasTok(toks, p + 3)
    THEN [ok |-> FALSE, pos |-> p + 3, val |-> 0, msg |-> Msg("Timezone for date expected", name)]
    ELSE
        LET hasTz == ToString(toks[p + 3]) # ToString(Endl)
            q == IF hasTz THEN p + 4 ELSE p + 3
            d == DateFrom(ToString(toks[p]), ToString(toks[p + 1]), ToString(toks[p + 2]))
        IN  IF hasTz /\ ~HasTok(toks, q)
            THEN [ok |-> FALSE, pos |-> q, val |-> 0,
                  msg |-> Msg("Semicolon after timezone for date expected", name)]
            ELSE IF hasTz /\ toks[q] # Endl
            THEN [ok |-> FALSE, pos |-> q, val |-> 0,
                  msg |-> Msg("Expected semicolon after timezone for date, found", name)]
            ELSE IF ~d.ok
            THEN [ok |-> FALSE, pos |-> q, val |-> 0, msg |-> Msg("Date::from failed", "")]
            ELSE [ok |-> TRUE, pos |-> q, val |-> d.val, msg |-> NoMsg]

BindingStateOf(w) ==
    CASE w = <<"a","c","t","i","v","e">> -> "Active"
      [] w = <<"f","r","e","e">> -> "Free"
      [] w = <<"a","b","a","n","d","o","n","e","d">> -> "Abandoned"
      [] OTHER -> ""

\* parse_binding_state, the iterator at the "binding" token p.
parse_binding_state(toks, p) ==
    IF ~TokIs(toks, p + 1, Opt("State"))
    THEN [ok |-> FALSE, pos |-> p + 1, val |-> "", msg |-> Msg("Expected 'state' after 'binding'", "")]
    ELSE IF ~(HasTok(toks, p + 2) /\ toks[p + 2].kind = "Word"
              /\ BindingStateOf(toks[p + 2].w) # "")
    THEN [ok |-> FALSE, pos |-> p + 2, val |-> "", msg |-> Msg("Expected binding value, found", "")]
    ELSE IF ~TokIs(toks, p + 3, Endl)
    THEN [ok |-> FALSE, pos |-> p + 3, val |-> "", msg |-> Msg("Expected semisolon, found", "")]
    ELSE [ok |-> TRUE, pos |-> p + 3, val |-> BindingStateOf(toks[p + 2].w), msg |-> NoMsg]

\* What one iteration of parse_lease's loop leaves: st is "cont" (the statement
\* was read and the trailing iter.next() made), "ret" (Ok(()) at a closing
\* brace) or "err"; pos is where the iterator is left.
Cont(l, p) == [st |-> "cont", lease |-> l, pos |-> p, msg |-> NoMsg]
Fail(l, p, m) == [st |-> "err", lease |-> l, pos |-> p, msg |-> m]

DateField(kw) ==
    CASE kw = "Starts" -> "starts" [] kw = "Ends" -> "ends" [] kw = "Tstp" -> "tstp"
      [] kw = "Tsfp" -> "tsfp" [] kw = "Atsfp" -> "atsfp" [] kw = "Cltt" -> "cltt"

DateName(kw) ==
    CASE kw = "Starts" -> "start" [] kw = "Ends" -> "end" [] kw = "Tstp" -> "tstp"
      [] kw = "Tsfp" -> "tsfp" [] kw = "Atsfp" -> "atsfp" [] kw = "Cltt" -> "cltt"

DateKeywords == {"Starts", "Ends", "Tstp", "Tsfp", "Atsfp", "Cltt"}

\* ArmDate keeping a date already set (get_or_insert for replace).
ArmDateFirst(l, toks, p, kw) ==
    LET d == parse_date(toks, p + 1, DateName(kw)) IN
    IF d.ok
    THEN Cont(IF l[DateField(kw)] = None THEN [l EXCEPT ![DateField(kw)] = Some(d.val)] ELSE l,
              d.pos + 1)
    ELSE Fail(l, d.pos, d.msg)

ArmDate(l, toks, p, kw) ==
    LET d == parse_date(toks, p + 1, DateName(kw)) IN
    IF d.ok THEN Cont([l EXCEPT ![DateField(kw)] = Some(d.val)], d.pos + 1)
    ELSE Fail(l, d.pos, d.msg)

ArmHardware(l, toks, p) ==
    IF ~HasTok(toks, p + 1) THEN Fail(l, p + 1, Msg("Hardware type expected", ""))
    ELSE IF ~HasTok(toks, p + 2) THEN Fail(l, p + 2, Msg("MAC address expected", ""))
    ELSE IF ~TokIs(toks, p + 3, Endl)
    THEN Fail(l, p + 3, Msg("Semicolon expected authoring-byte-order", ""))
    ELSE Cont([l EXCEPT !.hardware =
                   Some([h_type |-> ToString(toks[p + 1]), mac |-> ToString(toks[p + 2])])],
              p + 4)

\* ArmUid leaving the iterator at the keyword after a statement read.
ArmUidStuck(l, toks, p) ==
    IF ~HasTok(toks, p + 1) THEN Fail(l, p + 1, Msg("Client identifier expected", ""))
    ELSE LET l2 == [l EXCEPT !.uid = Some(ToString(toks[p + 1]))] IN
         IF ~TokIs(toks, p + 2, Endl)
         THEN Fail(l2, p + 2, Msg("Semicolon expected authoring-byte-order", ""))
         ELSE Cont(l2, p)

ArmUid(l, toks, p) ==
    IF ~HasTok(toks, p + 1) THEN Fail(l, p + 1, Msg("Client identifier expected", ""))
    ELSE LET l2 == [l EXCEPT !.uid = Some(ToString(toks[p + 1]))] IN
         IF ~TokIs(toks, p + 2, Endl)
         THEN Fail(l2, p + 2, Msg("Semicolon expected authoring-byte-order", ""))
         ELSE Cont(l2, p + 3)

ArmClientHostname(l, toks, p) ==
    IF ~HasTok(toks, p + 1) THEN Fail(l, p + 1, Msg("Client hostname expected", ""))
    ELSE LET l2 == [l EXCEPT !.client_hostname = Some(unquote(ToString(toks[p + 1])))] IN
         IF ~TokIs(toks, p + 2, Endl)
         THEN Fail(l2, p + 2, Msg("Semicolon expected authoring-byte-order", ""))
         ELSE Cont(l2, p + 3)

ArmHostname(l, toks, p) ==
    IF ~HasTok(toks, p + 1) THEN Fail(l, p + 1, Msg("Hostname expected", ""))
    ELSE LET l2 == [l EXCEPT !.hostname = Some(unquote(ToString(toks[p + 1])))] IN
         IF ~TokIs(toks, p + 2, Endl)
         THEN Fail(l2, p + 2, Msg("Semicolon expected authoring-byte-order", ""))
         ELSE Cont(l2, p + 3)

ArmBinding(l, toks, p) ==
    LET b == parse_binding_state(toks, p) IN
    IF b.ok THEN Cont([l EXCEPT !.binding_state = b.val], b.pos + 1)
    ELSE Fail(l, b.pos, b.msg)

\* ArmNext writing the current binding state as well.
ArmNextCurrent(l, toks, p) ==
    IF TokIs(toks, p + 1, Opt("Binding"))
    THEN LET b == parse_binding_state(toks, p + 1) IN
         IF b.ok THEN Cont([l EXCEPT !.next_binding_state = Some(b.val),
                                     !.binding_state = b.val], b.pos + 1)
         ELSE Fail(l, b.pos, b.msg)
    ELSE Fail(l, p + 1, Msg("Expected 'binding' after 'next'", ""))

ArmNext(l, toks, p) ==
    IF TokIs(toks, p + 1, Opt("Binding"))
    THEN LET b == parse_binding_state(toks, p + 1) IN
         IF b.ok THEN Cont([l EXCEPT !.next_binding_state = Some(b.val)], b.pos + 1)
         ELSE Fail(l, b.pos, b.msg)
    ELSE Fail(l, p + 1, Msg("Expected 'binding' after 'next'", ""))

ArmRewind(l, toks, p) ==
    IF TokIs(toks, p + 1, Opt("Binding"))
    THEN LET b == parse_binding_state(toks, p + 1) IN
         IF b.ok THEN Cont([l EXCEPT !.rewind_binding_state = Some(b.val)], b.pos + 1)
         ELSE Fail(l, b.pos, b.msg)
    ELSE Fail(l, p + 1, Msg("Expected 'binding' after 'rewind'", ""))

VendorClassIdentifier ==
    <<"v","e","n","d","o","r","-","c","l","a","s","s","-","i","d","e","n","t","i","f","i","e","r">>

\* ArmSet storing the value whatever the name.
ArmSetAny(l, toks, p) ==
    IF ~(HasTok(toks, p + 1) /\ toks[p + 1].kind = "Word")
    THEN Fail(l, p + 1, Msg("Value name expected after 'set'", ""))
    ELSE IF ~TokIs(toks, p + 2, Word(<<"=">>))
    THEN Fail(l, p + 2, Msg("'=' expected after 'set VALUE'", ""))
    ELSE IF ~(HasTok(toks, p + 3) /\ toks[p + 3].kind = "Word")
    THEN Fail(l, p + 3, Msg("Value name expected after '='", ""))
    ELSE IF ~TokIs(toks, p + 4, Endl)
    THEN Fail(l, p + 4, Msg("Expected semisolon, found", ""))
    ELSE Cont([l EXCEPT !.vendor_class_identifier = Some(toks[p + 3].w)], p + 5)

ArmSet(l, toks, p) ==
    IF ~(HasTok(toks, p + 1) /\ toks[p + 1].kind = "Word")
    THEN Fail(l, p + 1, Msg("Value name expected after 'set'", ""))
    ELSE IF ~TokIs(toks, p + 2, Word(<<"=">>))
    THEN Fail(l, p + 2, Msg("'=' expected after 'set VALUE'", ""))
    ELSE IF ~(HasTok(toks, p + 3) /\ toks[p + 3].kind = "Word")
    THEN Fail(l, p + 3, Msg("Value name expected after '='", ""))
    ELSE IF ~TokIs(toks, p + 4, Endl)
    THEN Fail(l, p + 4, Msg("Expected semisolon, found", ""))
    ELSE IF toks[p + 1].w = VendorClassIdentifier
    THEN Cont([l EXCEPT !.vendor_class_identifier = Some(toks[p + 3].w)], p + 5)
    ELSE Cont(l, p + 5)

\* The arm of parse_lease's match that the token t takes.
ArmOf(t) ==
    IF t.kind = "Opt" /\ t.kw \in DateKeywords THEN "Date"
    ELSE IF t.kind = "Opt" /\ t.kw \in {"Hardware", "Uid", "ClientHostname", "Binding",
                                        "Next", "Rewind", "Hostname", "Set"} THEN t.kw
    ELSE IF t = Paren("}") THEN "Close"
    ELSE "Unexpected"

\* One iteration of parse_lease's loop, the iterator at p <= Len(toks).
LeaseIter(l, toks, p) ==
    LET t == toks[p]
        arm == ArmOf(t)
    IN  CASE arm = "Date" -> ArmDate(l, toks, p, t.kw)
          [] arm = "Hardware" -> ArmHardware(l, toks, p)
          [] arm = "Uid" -> ArmUid(l, toks, p)
          [] arm = "ClientHostname" -> ArmClientHostname(l, toks, p)
          [] arm = "Binding" -> ArmBinding(l, toks, p)
          [] arm = "Next" -> ArmNext(l, toks, p)
          [] arm = "Rewind" -> ArmRewind(l, toks, p)
          [] arm = "Hostname" -> ArmHostname(l, toks, p)
          [] arm = "Set" -> ArmSet(l, toks, p)
          [] arm = "Close" -> [st |-> "ret", lease |-> l, pos |-> p, msg |-> NoMsg]
          [] OTHER -> Fail(l, p, Msg("Unexpected option", ""))

\* parse_lease: its loop run from p to its return, [st |-> "ret" or "err", ...].
RECURSIVE parse_lease(_, _, _)
parse_lease(l, toks, p) ==
    IF ~HasTok(toks, p) THEN [st |-> "ret", lease |-> l, pos |-> p, msg |-> NoMsg]
    ELSE LET r == LeaseIter(l, toks, p) IN
         IF r.st = "cont" THEN parse_lease(r.lease, toks, r.pos) ELSE r

(***************************************************************************)
(* parse_lease, one action per arm of its loop; parse_config's check of    *)
(* the closing brace follows parse_lease's return in the same step.        *)
(***************************************************************************)
InLease == pc = "lease" /\ outcome = "none"

Returns(how, msg, coll) ==
    /\ outcome' = how
    /\ errmsg' = msg
    /\ ret' = coll

LeaseApply ==
    LET r == LeaseIter(lease, tokens, tpos) IN
    /\ lease' = r.lease
    /\ tpos' = r.pos
    /\ IF r.st = "err" THEN Returns("err", r.msg, None)
       ELSE UNCHANGED <<outcome, errmsg, ret>>
    /\ UNCHANGED <<input, src, lexVars, pc, leases, qres>>

AtArm(arm) == InLease /\ HasTok(tokens, tpos) /\ ArmOf(tokens[tpos]) = arm

LeaseDate == AtArm("Date") /\ LeaseApply
LeaseHardware == AtArm("Hardware") /\ LeaseApply
LeaseUid == AtArm("Uid") /\ LeaseApply
LeaseClientHostname == AtArm("ClientHostname") /\ LeaseApply
LeaseBinding == AtArm("Binding") /\ LeaseApply
LeaseNextBinding == AtArm("Next") /\ LeaseApply
LeaseRewindBinding == AtArm("Rewind") /\ LeaseApply
LeaseHostname == AtArm("Hostname") /\ LeaseApply
LeaseSet == AtArm("Set") /\ LeaseApply
LeaseUnexpected == AtArm("Unexpected") /\ LeaseApply

\* CloseBlock taking the end of the tokens for the end of the block.
CloseBlockLenient(ls, l, toks, p) ==
    IF HasTok(toks, p) /\ toks[p] # Paren("}")
    THEN [ok |-> FALSE, leases |-> ls, pos |-> p,
          msg |-> Msg("Expected end of section with '}', got", "")]
    ELSE [ok |-> TRUE, leases |-> Append(ls, l), pos |-> p + 1, msg |-> NoMsg]

\* parse_config after parse_lease returned Ok(()) with the iterator at p.
CloseBlock(ls, l, toks, p) ==
    IF ~HasTok(toks, p) \/ toks[p] # Paren("}")
    THEN [ok |-> FALSE, leases |-> ls, pos |-> p,
          msg |-> Msg("Expected end of section with '}', got", "")]
    ELSE [ok |-> TRUE, leases |-> Append(ls, l), pos |-> p + 1, msg |-> NoMsg]

CloseApply ==
    LET c == CloseBlock(leases, lease, tokens, tpos) IN
    /\ leases' = c.leases
    /\ tpos' = c.pos
    /\ IF c.ok THEN pc' = "config" /\ UNCHANGED <<outcome, errmsg, ret>>
       ELSE pc' = pc /\ Returns("err", c.msg, None)
    /\ UNCHANGED <<input, src, lexVars, lease, qres>>

\* parse_lease returns at the closing brace.
LeaseClose == AtArm("Close") /\ CloseApply

\* parse_lease's loop ends with the tokens: it returns Ok(()).
LeaseExhausted == InLease /\ ~HasTok(tokens, tpos) /\ CloseApply

(***************************************************************************)
(* The top-level parser: parse_config.                                     *)
(***************************************************************************)
InConfig == pc = "config" /\ outcome = "none"

\* The lease parse_config declares before its loop and never assigns.
OuterLease == LeaseDefault

\* Flush comparing the lease of the block parsed last, as the flush was meant.
FlushPrev(ls, l) == IF l # LeaseDefault THEN Append(ls, l) ELSE ls

\* Lines 44-46: the flush of the outer lease.
Flush(ls, l) == IF OuterLease # LeaseDefault THEN Append(ls, OuterLease) ELSE ls

\* The "lease" arm up to the call of parse_lease, the iterator at the keyword p.
LeaseHeader(ls, l, toks, p) ==
    IF ~HasTok(toks, p + 1)
    THEN [st |-> "err", leases |-> Flush(ls, l), lease |-> LeaseDefault, pos |-> p + 1,
          msg |-> Msg("IP address expected", "")]
    ELSE LET l2 == [LeaseDefault EXCEPT !.ip = ToString(toks[p + 1])] IN
         IF ~HasTok(toks, p + 2)
         THEN [st |-> "panic", leases |-> Flush(ls, l), lease |-> l2, pos |-> p + 2,
               msg |-> Msg("called Option::unwrap() on a None value", "")]
         ELSE IF toks[p + 2] # Paren("{")
         THEN [st |-> "panic", leases |-> Flush(ls, l), lease |-> l2, pos |-> p + 2,
               msg |-> Msg("assertion failed: left == right", "")]
         ELSE [st |-> "body", leases |-> Flush(ls, l), lease |-> l2, pos |-> p + 3,
               msg |-> NoMsg]

ConfigLease ==
    /\ InConfig /\ TokIs(tokens, tpos, Decl("Lease"))
    /\ LET h == LeaseHeader(leases, lease, tokens, tpos) IN
       /\ leases' = h.leases
       /\ lease' = h.lease
       /\ tpos' = h.pos
       /\ IF h.st = "body" THEN pc' = "lease" /\ UNCHANGED <<outcome, errmsg, ret>>
          ELSE pc' = pc /\ Returns(h.st, h.msg, None)
    /\ UNCHANGED <<input, src, lexVars, qres>>

Directives ==
    {<<"a","u","t","h","o","r","i","n","g","-","b","y","t","e","-","o","r","d","e","r">>,
     <<"s","e","r","v","e","r","-","d","u","i","d">>}

IsDirective(t) == t.kind = "Word" /\ t.w \in Directives

\* The Word arm for a directive, the iterator at the directive p.
Directive(toks, p) ==
    IF ~HasTok(toks, p + 1) THEN [ok |-> FALSE, pos |-> p + 1, msg |-> Msg("Value", "")]
    ELSE IF ~TokIs(toks, p + 2, Endl)
    THEN [ok |-> FALSE, pos |-> p + 2, msg |-> Msg("Semicolon expected", "")]
    ELSE [ok |-> TRUE, pos |-> p + 3, msg |-> NoMsg]

ConfigDirective ==
    /\ InConfig /\ HasTok(tokens, tpos) /\ IsDirective(tokens[tpos])
    /\ LET d == Directive(tokens, tpos) IN
       /\ tpos' = d.pos
       /\ IF d.ok THEN UNCHANGED <<outcome, errmsg, ret>>
          ELSE Returns("err", d.msg, None)
    /\ UNCHANGED <<input, src, lexVars, pc, leases, lease, qres>>

\* Any other word and any other token.
ConfigUnexpected ==
    /\ InConfig /\ HasTok(tokens, tpos)
    /\ tokens[tpos] # Decl("Lease") /\ ~IsDirective(tokens[tpos])
    /\ Returns("err", Msg("Unexpected", ""), None)
    /\ UNCHANGED <<input, src, lexVars, pc, parseVars, qres>>

\* The loop ends with the tokens: Ok(ParserResult { leases }).
ConfigDone ==
    /\ InConfig /\ ~HasTok(tokens, tpos)
    /\ Returns("ok", NoMsg, Some(leases))
    /\ UNCHANGED <<input, src, lexVars, pc, parseVars, qres>>

ParseNext ==
    \/ ConfigLease
    \/ ConfigDirective
    \/ ConfigUnexpected
    \/ ConfigDone
    \/ LeaseDate
    \/ LeaseHardware
    \/ LeaseUid
    \/ LeaseClientHostname
    \/ LeaseBinding
    \/ LeaseNextBinding
    \/ LeaseRewindBinding
    \/ LeaseHostname
    \/ LeaseSet
    \/ LeaseUnexpected
    \/ LeaseClose
    \/ LeaseExhausted

(***************************************************************************)
(* The texts parse is run on.                                              *)
(***************************************************************************)
RECURSIVE SeqsUpTo(_, _)
SeqsUpTo(S, n) ==
    IF n = 0 THEN {<< >>}
    ELSE LET shorter == SeqsUpTo(S, n - 1) IN
         shorter \cup {Append(q, x) : q \in shorter, x \in S}

\* The texts of ws, each followed by sep.
RECURSIVE Join(_, _)
Join(ws, sep) == IF ws = << >> THEN << >> ELSE Head(ws) \o sep \o Join(Tail(ws), sep)

\* Free text: every string of at most MaxLen of these characters.
LexChars == {"a", " ", "\r", "\n", "\"", "\\", ";", "{", "#"}

\* Quoted strings spelling a keyword, closed and not.
KeywordTexts ==
    {<<"\"">> \o w \o c : w \in {ConfigKeywordToString("Lease"), LeaseKeywordToString("Starts")},
                           c \in {<<"\"">>, << >>}}

InitLex == \E text \in SeqsUpTo(LexChars, MaxLen) \cup KeywordTexts : Start(text, << >>)

\* Free token text: at most MaxFrags of these words, a space after each.
Frags ==
    {<<"l","e","a","s","e">>, <<"1">>, <<"{">>, <<"}">>, <<";">>,
     <<"s","e","r","v","e","r","-","d","u","i","d">>, <<"u","i","d">>}

\* A written statement: the lease field it assigns ("" when none) and its text,
\* the words separated by spaces and closed by the terminator.
Stmt(field, words) ==
    [field |-> field, text |-> SubSeq(Join(words, <<" ">>), 1, Len(Join(words, <<" ">>)) - 1) \o <<";">>]

Kw(k) == LeaseKeywordToString(k)
Quoted(w) == <<"\"">> \o w \o <<"\"">>

DateStmts(kw) ==
    {Stmt(DateField(kw), <<Kw(kw), <<"1">>, <<"2">>, <<"0">>>>),
     Stmt(DateField(kw), <<Kw(kw), <<"1">>, <<"3">>, <<"0">>, <<"U">>>>)}

WordStmts(field, kw) ==
    {Stmt(field, <<Kw(kw), <<"a">>>>), Stmt(field, <<Kw(kw), Quoted(<<"b">>)>>)}

BindingStmts(field, prefix) ==
    {Stmt(field, prefix \o <<Kw("Binding"), Kw("State"), <<"a","c","t","i","v","e">>>>),
     Stmt(field, prefix \o <<Kw("Binding"), Kw("State"), <<"a","b","a","n","d","o","n","e","d">>>>),
     Stmt(field, prefix \o <<Kw("Binding"), Kw("State"), <<"f","r","e","e">>>>)}

HardwareStmts ==
    {Stmt("hardware", <<Kw("Hardware"), <<"e">>, <<"a">>>>),
     Stmt("hardware", <<Kw("Hardware"), <<"e">>, <<"b">>>>)}

VendorStmts ==
    {Stmt("vendor_class_identifier", <<Kw("Set"), VendorClassIdentifier, <<"=">>, <<"a">>>>),
     Stmt("vendor_class_identifier", <<Kw("Set"), VendorClassIdentifier, <<"=">>, Quoted(<<"b">>)>>)}

OtherHostname == Stmt("hostname", <<Kw("Hostname"), <<"h">>>>)
OtherUid == Stmt("uid", <<Kw("Uid"), <<"u">>>>)

\* The source text "\"w\"": a quoted string whose content is w between two
\* escaped quotes.
EscQuoted == <<"\"", "\\", "\"", "w", "\\", "\"", "\"">>

\* Statements whose value holds a double quote.
QuoteStmts ==
    {Stmt("hostname", <<Kw("Hostname"), EscQuoted>>),
     Stmt("client_hostname", <<Kw("ClientHostname"), EscQuoted>>),
     Stmt("client_hostname", <<Kw("ClientHostname"), <<"a", "\"", "b">>>>),
     Stmt("uid", <<Kw("Uid"), EscQuoted>>),
     Stmt("hardware", <<Kw("Hardware"), <<"e", "\"">>, EscQuoted>>),
     Stmt("vendor_class_identifier", <<Kw("Set"), VendorClassIdentifier, <<"=">>, EscQuoted>>)}

\* The statement families: two or three statements of one field and one of another.
Families ==
    {DateStmts(kw) \cup {OtherHostname} : kw \in DateKeywords}
    \cup {WordStmts("uid", "Uid") \cup {OtherHostname},
          WordStmts("client_hostname", "ClientHostname") \cup {OtherHostname},
          WordStmts("hostname", "Hostname") \cup {OtherUid},
          HardwareStmts \cup {OtherHostname},
          VendorStmts \cup {OtherHostname},
          BindingStmts("binding_state", << >>),
          BindingStmts("next_binding_state", <<Kw("Next")>>),
          BindingStmts("rewind_binding_state", <<Kw("Rewind")>>),
          QuoteStmts}

Block(ip, stmts, closed) == [ip |-> ip, stmts |-> stmts, closed |-> closed]

Ips == {<<"1">>, <<"2">>}

\* One closed block of at most MaxStmts statements of one family.
FamilyDocs ==
    UNION {{<<Block(<<"1">>, ss, TRUE)>> : ss \in SeqsUpTo(F, MaxStmts)} : F \in Families}

\* At most MaxBlocks blocks of at most one statement, closed or not.
MultiBlocks ==
    {Block(ip, ss, c) : ip \in Ips, ss \in {<< >>, <<OtherHostname>>, <<OtherUid>>},
                        c \in BOOLEAN}

MultiDocs == SeqsUpTo(MultiBlocks, MaxBlocks)

Docs == FamilyDocs \cup MultiDocs

\* The text of a block; a comment and a newline end its last line.
RenderBlock(b) ==
    <<"l","e","a","s","e"," ">> \o b.ip \o <<" ", "{", " ">>
    \o Join([i \in 1..Len(b.stmts) |-> b.stmts[i].text], <<" ">>)
    \o (IF b.closed THEN <<"}">> ELSE << >>) \o <<" ", "#", "c", "\n">>

Render(doc) == Join([i \in 1..Len(doc) |-> RenderBlock(doc[i])], << >>)

\* The collections queried: at most MaxLeases leases that differ in the fields
\* active_by reads, and every single lease with bounds among the instants.
KeyShapes ==
    {[LeaseDefault EXCEPT !.ip = <<"a">>],
     [LeaseDefault EXCEPT !.ip = <<"b">>],
     [LeaseDefault EXCEPT !.ip = <<"a">>, !.hostname = Some(<<"a">>)],
     [LeaseDefault EXCEPT !.ip = <<"a">>, !.client_hostname = Some(<<"a">>)],
     [LeaseDefault EXCEPT !.ip = <<"b">>,
                          !.hardware = Some([h_type |-> <<"e">>, mac |-> <<"a">>])]}

QueryLeases ==
    {[l EXCEPT !.starts = w[1], !.ends = w[2], !.binding_state = bs] :
        l \in KeyShapes, w \in {<<None, None>>, <<Some(1), Some(2)>>},
        bs \in {"Active", "Free", "Abandoned"}}

OptInstants == {None} \cup {Some(t) : t \in Instants}

WindowLeases ==
    {[LeaseDefault EXCEPT !.starts = s, !.ends = e] : s \in OptInstants, e \in OptInstants}

StartQuery(coll) ==
    /\ input = << >>
    /\ src = << >>
    /\ pos = 1
    /\ tokens = << >>
    /\ lexres = "ok"
    /\ pc = "query"
    /\ tpos = 1
    /\ leases = coll
    /\ lease = LeaseDefault
    /\ outcome = "ok"
    /\ errmsg = NoMsg
    /\ ret = Some(coll)
    /\ qres = None

InitQuery ==
    \/ \E coll \in SeqsUpTo(QueryLeases, MaxLeases) : StartQuery(coll)
    \/ \E l \in WindowLeases : StartQuery(<<l>>)

SpecQuery == InitQuery /\ [][QueryNext]_vars

\* The word sequences that take at most one word of each slot, in order.
RECURSIVE Slotted(_)
Slotted(slots) ==
    IF slots = << >> THEN {<< >>}
    ELSE {<< >>} \cup {<<w>> \o rest : w \in Head(slots), rest \in Slotted(Tail(slots))}

\* The words of one statement, whole, cut short or with a wrong word in a place.
SetBodies ==
    {pre \o <<Kw("Set")>> \o ws :
        pre \in {<< >>, <<Kw("Hostname"), <<"h">>, <<";">>>>},
        ws \in Slotted(<<{VendorClassIdentifier, Quoted(VendorClassIdentifier), <<"x">>,
                          Kw("Uid"), <<";">>},
                         {<<"=">>, <<"a">>, <<";">>},
                         {<<"a">>, Quoted(<<"b">>), Kw("Set"), <<";">>},
                         {<<";">>, <<"}">>, <<"a">>}>>)}

BindingBodies ==
    {pre \o ws :
        pre \in {<< >>, <<Kw("Next")>>, <<Kw("Rewind")>>},
        ws \in Slotted(<<{Kw("Binding"), Kw("State"), <<"a">>},
                         {Kw("State"), <<"a">>},
                         {<<"a","c","t","i","v","e">>, <<"f","r","e","e">>,
                          <<"a","b","a","n","d","o","n","e","d">>, <<"A","c","t","i","v","e">>,
                          Quoted(<<"a","c","t","i","v","e">>), Kw("State"), <<";">>},
                         {<<";">>, <<"}">>, <<"a">>}>>)}

DateBodies ==
    {<<Kw(kw)>> \o ws :
        kw \in DateKeywords,
        ws \in Slotted(<<{<<"1">>, <<";">>}, {<<"2">>, <<"x">>}, {<<"0">>, <<"}">>},
                         {<<";">>, <<"U">>, Quoted(<<";">>), <<"}">>},
                         {<<";">>, <<"a">>}>>)}

\* The text of one block of these words, closed or left open.
BodyText(ws, closed) ==
    <<"l","e","a","s","e"," ","1"," ","{"," ">> \o Join(ws, <<" ">>)
    \o (IF closed THEN <<"}">> ELSE << >>)

Init ==
    \/ \E doc \in Docs : Start(Render(doc), doc)
    \/ \E ws \in SeqsUpTo(Frags, MaxFrags) : Start(Join(ws, <<" ">>), << >>)
    \/ \E ws \in SetBodies \cup BindingBodies \cup DateBodies, closed \in BOOLEAN :
          Start(BodyText(ws, closed), << >>)

Next == LexNext \/ ParseNext

Spec == Init /\ [][Next]_vars

SpecLex == InitLex /\ [][LexNext]_vars

(***************************************************************************)
(* What the claims are stated with.                                        *)
(***************************************************************************)
\* The text parsed is the text of the blocks in src.
Written == input = Render(src)

\* The lease of block b parsed on its own: its tokens are lease, ip, {, the
\* statements, }.
BlockLease(b) ==
    LET toks == lex(RenderBlock(b)).tokens IN
    parse_lease([LeaseDefault EXCEPT !.ip = ToString(toks[2])], toks, 4).lease

\* s without any occurrence of the character c.
RECURSIVE Without(_, _)
Without(s, c) ==
    IF s = << >> THEN << >>
    ELSE IF Head(s) = c THEN Without(Tail(s), c)
    ELSE <<Head(s)>> \o Without(Tail(s), c)

\* The j-th statement is the last of ss that assigns its field.
IsLast(ss, j) == \A k \in (j + 1)..Len(ss) : ss[k].field # ss[j].field

\* ss with, of the statements assigning one field, only the last kept.
RECURSIVE KeepLast(_)
KeepLast(ss) ==
    IF ss = << >> THEN << >>
    ELSE IF IsLast(ss, 1) THEN <<Head(ss)>> \o KeepLast(Tail(ss))
    ELSE KeepLast(Tail(ss))

LeaseFieldNames ==
    {"starts", "ends", "tstp", "tsfp", "atsfp", "cltt", "hardware", "uid",
     "client_hostname", "hostname", "binding_state", "next_binding_state",
     "rewind_binding_state", "vendor_class_identifier"}

Max(S) == CHOOSE m \in S : \A n \in S : n <= m

(***************************************************************************)
(* C1: active_by returns the lease of highest declaration index among      *)
(* those whose selected field is present and equals the target, whose      *)
(* binding state is not Abandoned and that are active at the instant, and  *)
(* None exactly when there is no such lease; a later lease failing a       *)
(* condition does not shadow an earlier one meeting all.                   *)
(***************************************************************************)
C1_Selected(field, l) ==
    CASE field = "ClientHostname" -> l.client_hostname
      [] field = "Hostname" -> l.hostname
      [] field = "LeasedIP" -> <<l.ip>>
      [] field = "MAC" -> IF l.hardware = << >> THEN << >> ELSE <<l.hardware[1].mac>>

C1_Matches(q) ==
    {i \in 1..Len(leases) :
        /\ C1_Selected(q.field, leases[i]) = <<q.value>>
        /\ leases[i].binding_state # "Abandoned"
        /\ leases[i].starts = << >> \/ leases[i].starts[1] <= q.at
        /\ leases[i].ends = << >> \/ q.at <= leases[i].ends[1]}

C1_ActiveByMostRecent ==
    (qres # None /\ qres[1].op = "active_by") =>
        LET q == qres[1] IN
        IF C1_Matches(q) = {} THEN q.found = None
        ELSE q.found = Some(leases[Max(C1_Matches(q))])

\* A later lease of the same IP that is abandoned, an earlier one that is answered.
C1_Witness ==
    /\ qres # None /\ qres[1].op = "active_by" /\ qres[1].field = "LeasedIP"
    /\ Len(leases) = 2
    /\ leases[1].ip = qres[1].value /\ leases[2].ip = qres[1].value
    /\ leases[2].binding_state = "Abandoned"
    /\ leases[1] # leases[2]
    /\ qres[1].found = Some(leases[1])

(***************************************************************************)
(* C2: is_active_at(t) is true iff (starts is absent or starts <= t) and   *)
(* (ends is absent or t <= ends), both bounds inclusive.                   *)
(***************************************************************************)
C2_ActiveWindowInclusive ==
    (qres # None /\ qres[1].op = "is_active_at") =>
        LET l == leases[qres[1].idx]
            t == qres[1].at
        IN  qres[1].active <=>
                /\ l.starts = None \/ l.starts[1] <= t
                /\ l.ends = None \/ t <= l.ends[1]

\* A lease asked at the instant that is both its starts and its ends.
C2_Witness ==
    /\ qres # None /\ qres[1].op = "is_active_at"
    /\ leases[qres[1].idx].starts = Some(qres[1].at)
    /\ leases[qres[1].idx].ends = Some(qres[1].at)
    /\ qres[1].active

(***************************************************************************)
(* C3: after a successful parse the collection holds exactly one lease per *)
(* block of the input, in declaration order, the i-th lease carrying the   *)
(* IP and the statements of the i-th block; blocks of the same IP are all  *)
(* kept and no other lease is appended.                                    *)
(***************************************************************************)
C3_OneLeasePerBlock ==
    (outcome = "ok" /\ Written) =>
        /\ ret # None
        /\ Len(ret[1]) = Len(src)
        /\ \A i \in 1..Len(src) :
              /\ ret[1][i].ip = src[i].ip
              /\ ret[1][i] = BlockLease(src[i])

\* Two blocks of the same IP with different statements, both kept in order.
C3_Witness ==
    /\ outcome = "ok" /\ Written
    /\ Len(src) = 2 /\ src[1].ip = src[2].ip
    /\ src[1].stmts = <<OtherHostname>> /\ src[2].stmts = <<OtherUid>>
    /\ Len(ret[1]) = 2
    /\ ret[1][1].hostname = Some(<<"h">>) /\ ret[1][2].uid = Some(<<"u">>)

(***************************************************************************)
(* C4: for every input whose tokenization hits a lexical error, parse      *)
(* returns an error value: it neither panics nor returns a result.         *)
(***************************************************************************)
C4_LexErrorIsReturned ==
    lexres = "err" => outcome \in {"none", "err"}

(***************************************************************************)
(* C5: on a lease declaration, when the token after the IP token is not    *)
(* the opening brace (or is missing), parse returns an error value and     *)
(* does not panic; when no token follows "lease", parse returns the error  *)
(* "IP address expected".                                                  *)
(***************************************************************************)
C5_AtLease == InConfig /\ TokIs(tokens, tpos, Decl("Lease"))

C5_HeaderErrorIsReturned ==
    [][/\ (C5_AtLease /\ ~HasTok(tokens, tpos + 1)) =>
            (outcome' = "err" /\ errmsg' = Msg("IP address expected", ""))
       /\ (C5_AtLease /\ HasTok(tokens, tpos + 1) /\ ~TokIs(tokens, tpos + 2, Paren("{"))) =>
            outcome' = "err"]_vars

(***************************************************************************)
(* C6 as claimed: whenever the token stream is exhausted inside a lease    *)
(* block, parse fails with "Expected end of section" and returns no        *)
(* collection.                                                             *)
(***************************************************************************)
C6_EndOfSection == Msg("Expected end of section with '}', got", "")

C6_ExhaustedAnywhere ==
    (pc = "lease" /\ outcome # "none" /\ ~HasTok(tokens, tpos)) =>
        (outcome = "err" /\ errmsg = C6_EndOfSection /\ ret = None)

(***************************************************************************)
(* C6 amended: when the token stream is exhausted inside a lease block at  *)
(* the start of a statement (after the opening brace or a complete         *)
(* statement), parse fails with "Expected end of section"; however the     *)
(* parse ends inside a block with the stream exhausted, it ends with an    *)
(* error and returns no collection, the leases of earlier blocks included. *)
(***************************************************************************)
C6_UnclosedBlockFails ==
    /\ [][(InLease /\ ~HasTok(tokens, tpos)) =>
            (outcome' = "err" /\ errmsg' = C6_EndOfSection /\ ret' = None)]_vars
    /\ []((pc = "lease" /\ outcome # "none" /\ ~HasTok(tokens, tpos)) =>
            (outcome = "err" /\ ret = None))

\* A well-formed block parsed, then a block left open: the error, and nothing returned.
C6_Witness ==
    /\ pc = "lease" /\ outcome = "err" /\ errmsg = C6_EndOfSection
    /\ ~HasTok(tokens, tpos)
    /\ Len(leases) = 1
    /\ ret = None

(***************************************************************************)
(* C7: every iteration of lex's main loop consumes at least one input      *)
(* character, whatever the current character, so lex terminates.           *)
(***************************************************************************)
C7_EveryIterationConsumes ==
    [][LexRunning => pos' > pos]_vars

(***************************************************************************)
(* C8: when a block holds two or more statements assigning the same field, *)
(* the parsed lease holds the value of the last of them, and the lease is  *)
(* that of the block with the earlier assignments removed.                 *)
(***************************************************************************)
C8_LastWriterWins ==
    (outcome = "ok" /\ Written /\ Len(src) = 1) =>
        LET b == src[1]
            l == ret[1][1]
        IN  /\ \A j \in 1..Len(b.stmts) :
                  IsLast(b.stmts, j) =>
                      l[b.stmts[j].field] =
                          BlockLease(Block(b.ip, <<b.stmts[j]>>, TRUE))[b.stmts[j].field]
            /\ l = BlockLease(Block(b.ip, KeepLast(b.stmts), TRUE))

\* Two starts statements with different dates: the second is kept.
C8_Witness ==
    /\ outcome = "ok" /\ Written /\ Len(src) = 1
    /\ Len(src[1].stmts) = 2
    /\ src[1].stmts[1] = Stmt("starts", <<Kw("Starts"), <<"1">>, <<"3">>, <<"0">>, <<"U">>>>)
    /\ src[1].stmts[2] = Stmt("starts", <<Kw("Starts"), <<"1">>, <<"2">>, <<"0">>>>)
    /\ ret[1][1].starts = Some(2)

(***************************************************************************)
(* C9: for a single block "lease <ip> { }" with no statements parse        *)
(* succeeds with exactly one lease: the ip is the token given, the six     *)
(* dates, hardware, uid, client-hostname, hostname and                     *)
(* vendor-class-identifier are absent, the binding state is Free and the   *)
(* next and rewind binding states are absent.                              *)
(***************************************************************************)
C9_IsEmptyBlock ==
    /\ lexres = "ok" /\ Len(tokens) = 4
    /\ tokens[1] = Decl("Lease") /\ tokens[3] = Paren("{") /\ tokens[4] = Paren("}")

C9_EmptyBlockDefaults ==
    (C9_IsEmptyBlock /\ outcome # "none") =>
        /\ outcome = "ok"
        /\ ret = <<<<[ip |-> ToString(tokens[2]),
                      starts |-> << >>, ends |-> << >>, tstp |-> << >>,
                      tsfp |-> << >>, atsfp |-> << >>, cltt |-> << >>,
                      hardware |-> << >>, uid |-> << >>, client_hostname |-> << >>,
                      hostname |-> << >>, binding_state |-> "Free",
                      next_binding_state |-> << >>, rewind_binding_state |-> << >>,
                      vendor_class_identifier |-> << >>]>>>>

C9_Witness ==
    /\ C9_IsEmptyBlock /\ outcome = "ok"
    /\ tokens[2] = Word(<<"1">>)
    /\ Len(ret[1]) = 1 /\ ret[1][1].ip = <<"1">>

(***************************************************************************)
(* C10: in every lease of a successful parse hostname and client_hostname  *)
(* hold no double quote: the value is the statement's token text with      *)
(* every double quote removed, those an escape put inside the token        *)
(* included; uid, hardware and vendor-class-identifier keep the token text *)
(* as it is.                                                               *)
(***************************************************************************)
C10_Stored(l, st) ==
    LET toks == lex(st.text).tokens IN
    CASE st.field = "hostname" -> l.hostname = <<Without(ToString(toks[2]), "\"")>>
      [] st.field = "client_hostname" ->
             l.client_hostname = <<Without(ToString(toks[2]), "\"")>>
      [] st.field = "uid" -> l.uid = <<ToString(toks[2])>>
      [] st.field = "hardware" ->
             l.hardware = <<[h_type |-> ToString(toks[2]), mac |-> ToString(toks[3])]>>
      [] st.field = "vendor_class_identifier" ->
             l.vendor_class_identifier = <<ToString(toks[4])>>
      [] OTHER -> TRUE

C10_NoQuote(opt) == \A i \in 1..Len(opt) : \A k \in 1..Len(opt[i]) : opt[i][k] # "\""

C10_HostnamesUnquoted ==
    outcome = "ok" =>
        /\ \A i \in 1..Len(ret[1]) :
              C10_NoQuote(ret[1][i].hostname) /\ C10_NoQuote(ret[1][i].client_hostname)
        /\ (Written /\ Len(src) = 1) =>
              \A j \in 1..Len(src[1].stmts) :
                  IsLast(src[1].stmts, j) => C10_Stored(ret[1][1], src[1].stmts[j])

\* client-hostname "\"w\""; uid "\"w\""; : the one stored without, the other with quotes.
C10_Witness ==
    /\ outcome = "ok" /\ Written /\ Len(src) = 1
    /\ src[1].stmts = <<Stmt("client_hostname", <<Kw("ClientHostname"), EscQuoted>>),
                        Stmt("uid", <<Kw("Uid"), EscQuoted>>)>>
    /\ tokens[5] = Word(<<"\"", "w", "\"">>)
    /\ ret[1][1].client_hostname = Some(<<"w">>)
    /\ ret[1][1].uid = Some(<<"\"", "w", "\"">>)

(***************************************************************************)
(* C11: the characters from a '#' up to the next newline (or the end of    *)
(* the input) produce no token: a comment inserted before a newline or at  *)
(* the end of the input, after any token, leaves the token sequence (and   *)
(* so the parse result) as it was.                                         *)
(***************************************************************************)
C11_Insert(s, i, t) == SubSeq(s, 1, i - 1) \o t \o SubSeq(s, i, Len(s))

\* The places of s before a newline or at the end where what precedes is
\* whole tokens, at least one.
C11_AfterToken(s) ==
    {i \in 2..(Len(s) + 1) :
        /\ i = Len(s) + 1 \/ s[i] = "\n"
        /\ lex(SubSeq(s, 1, i - 1)).ok
        /\ lex(SubSeq(s, 1, i - 1)).tokens # << >>}

C11_CommentInsertion ==
    lexres = "ok" =>
        \A i \in C11_AfterToken(input) :
            lex(C11_Insert(input, i, <<"#", "c">>)) = [ok |-> TRUE, tokens |-> tokens]

(***************************************************************************)
(* C13: every bracket character of the input outside a comment and outside *)
(* a double-quoted string becomes its own bracket token, also when it      *)
(* directly follows the characters of a bare word: the bracket tokens of   *)
(* the result are those characters, in order.                              *)
(***************************************************************************)
\* The bracket characters of s from i on that are outside comments and
\* strings; mode is "text", "comment" or "quote".
RECURSIVE C13_Outside(_, _, _)
C13_Outside(s, i, mode) ==
    IF i > Len(s) THEN << >>
    ELSE IF mode = "comment"
    THEN C13_Outside(s, i + 1, IF s[i] = "\n" THEN "text" ELSE "comment")
    ELSE IF mode = "quote"
    THEN IF s[i] = "\\" THEN C13_Outside(s, i + 2, "quote")
         ELSE C13_Outside(s, i + 1, IF s[i] = "\"" THEN "text" ELSE "quote")
    ELSE IF s[i] = "#" THEN C13_Outside(s, i + 1, "comment")
    ELSE IF s[i] = "\"" THEN C13_Outside(s, i + 1, "quote")
    ELSE IF s[i] \in {"(", ")", "[", "]", "{", "}"}
    THEN <<s[i]>> \o C13_Outside(s, i + 1, "text")
    ELSE C13_Outside(s, i + 1, "text")

C13_BracketTokens(toks) ==
    LET ps == SelectSeq(toks, LAMBDA t : t.kind = "Paren")
    IN  [k \in 1..Len(ps) |-> ps[k].w[1]]

C13_EveryBracketIsAToken ==
    lexres = "ok" => C13_BracketTokens(tokens) = C13_Outside(input, 1, "text")

(***************************************************************************)
(* C14: a double-quoted run at a token boundary lexes to exactly one       *)
(* generic word token, never a keyword token, whose text is the content    *)
(* decoded: backslash-backslash is one backslash, backslash-quote is one   *)
(* quote, any other backslash pair is copied as both characters, any other *)
(* character is copied; the token ends at the first unescaped quote. When  *)
(* the input ends before that quote, or right after a backslash, lex       *)
(* returns a lexical error and no tokens.                                  *)
(***************************************************************************)
\* The index of the first unescaped quote of s from i on, 0 when there is none.
RECURSIVE C14_Close(_, _)
C14_Close(s, i) ==
    IF i > Len(s) THEN 0
    ELSE IF s[i] = "\\" THEN (IF i + 1 > Len(s) THEN 0 ELSE C14_Close(s, i + 2))
    ELSE IF s[i] = "\"" THEN i
    ELSE C14_Close(s, i + 1)

\* The content r of a run, decoded.
RECURSIVE C14_Decode(_)
C14_Decode(r) ==
    IF r = << >> THEN << >>
    ELSE IF r[1] = "\\"
    THEN (IF r[2] \in {"\\", "\""} THEN <<r[2]>> ELSE <<r[1], r[2]>>)
         \o C14_Decode(SubSeq(r, 3, Len(r)))
    ELSE <<r[1]>> \o C14_Decode(Tail(r))

C14_QuotedRunIsOneWord ==
    [][(LexRunning /\ input[pos] = "\"") =>
          LET j == C14_Close(input, pos + 1) IN
          IF j = 0
          THEN lexres' = "err" /\ lex(input) = [ok |-> FALSE, tokens |-> << >>]
          ELSE /\ lexres' = "run"
               /\ pos' = j + 1
               /\ tokens' = Append(tokens,
                                   [kind |-> "Word", kw |-> "",
                                    w |-> C14_Decode(SubSeq(input, pos + 1, j - 1))])]_vars

\* The quoted string "lease" lexed: one generic word, not the declaration keyword.
C14_Witness ==
    /\ lexres = "ok"
    /\ input = <<"\"", "l", "e", "a", "s", "e", "\"">>
    /\ tokens = <<[kind |-> "Word", kw |-> "", w |-> <<"l", "e", "a", "s", "e">>]>>

(***************************************************************************)
(* C12 as claimed: a statement set NAME = VALUE; stores VALUE in           *)
(* vendor_class_identifier when NAME is "vendor-class-identifier"; for     *)
(* every other NAME it is accepted and leaves every field of the lease     *)
(* unchanged; it fails when NAME or VALUE is missing, when the token       *)
(* between them is not the word "=", or when the terminator is missing.    *)
(* NAME and VALUE are words as written: bare, quoted or spelling a keyword.*)
(***************************************************************************)
C12_AtSet == InLease /\ TokIs(tokens, tpos, [kind |-> "Opt", kw |-> "Set", w |-> << >>])

C12_Vendor ==
    <<"v","e","n","d","o","r","-","c","l","a","s","s","-","i","d","e","n","t","i","f","i","e","r">>

\* What the statement at tpos does when its NAME and VALUE are tokens of Kinds.
C12_Statement(Kinds) ==
    LET wellFormed ==
            /\ HasTok(tokens, tpos + 4)
            /\ tokens[tpos + 1].kind \in Kinds
            /\ tokens[tpos + 2] = [kind |-> "Word", kw |-> "", w |-> <<"=">>]
            /\ tokens[tpos + 3].kind \in Kinds
            /\ tokens[tpos + 4].kind = "Endl"
    IN  IF wellFormed
        THEN /\ outcome' = "none"
             /\ tpos' = tpos + 5
             /\ lease' = IF ToString(tokens[tpos + 1]) = C12_Vendor
                         THEN [lease EXCEPT !.vendor_class_identifier =
                                                <<ToString(tokens[tpos + 3])>>]
                         ELSE lease
        ELSE outcome' = "err" /\ ret' = << >>

C12_AnyNameAccepted ==
    [][C12_AtSet => C12_Statement({"Word", "Opt", "Decl"})]_vars

(***************************************************************************)
(* C12 amended: as claimed, for NAME and VALUE that are generic word       *)
(* tokens (a bare word that is no keyword, or a quoted string); the        *)
(* statement also fails when NAME or VALUE is any other token, a keyword   *)
(* such as uid included.                                                   *)
(***************************************************************************)
C12_SetStatement ==
    [][C12_AtSet => C12_Statement({"Word"})]_vars

\* hostname h; set x = a; read: the hostname kept, no vendor class identifier.
C12_Witness ==
    /\ pc = "lease" /\ outcome = "none" /\ tpos = 12
    /\ tokens[7] = [kind |-> "Opt", kw |-> "Set", w |-> << >>]
    /\ tokens[8] = [kind |-> "Word", kw |-> "", w |-> <<"x">>]
    /\ tokens[11].kind = "Endl"
    /\ lease.hostname = <<<<"h">>>>
    /\ lease.vendor_class_identifier = << >>

(***************************************************************************)
(* C15: the three binding-state statements use one grammar and write       *)
(* disjoint fields: binding state W; sets only binding_state, next binding *)
(* state W; only next_binding_state, rewind binding state W; only          *)
(* rewind_binding_state, so a block of next and rewind statements keeps    *)
(* binding_state Free. The parse fails unless binding is followed by the   *)
(* keyword state, a word token equal to active, free or abandoned and the  *)
(* terminator, and fails when next or rewind is not followed by binding.   *)
(***************************************************************************)
C15_Kw(k) == [kind |-> "Opt", kw |-> k, w |-> << >>]

C15_Value(w) ==
    CASE w = <<"a","c","t","i","v","e">> -> "Active"
      [] w = <<"f","r","e","e">> -> "Free"
      [] w = <<"a","b","a","n","d","o","n","e","d">> -> "Abandoned"
      [] OTHER -> "none"

\* The tokens from the binding keyword at b on are: binding state W ;
C15_Grammar(b) ==
    /\ HasTok(tokens, b + 3)
    /\ tokens[b] = C15_Kw("Binding")
    /\ tokens[b + 1] = C15_Kw("State")
    /\ tokens[b + 2].kind = "Word" /\ C15_Value(tokens[b + 2].w) # "none"
    /\ tokens[b + 3].kind = "Endl"

\* The statement whose binding keyword is at b is read into lease as new, or fails.
C15_Reads(b, new) ==
    IF C15_Grammar(b)
    THEN outcome' = "none" /\ tpos' = b + 4 /\ lease' = new
    ELSE outcome' = "err" /\ ret' = << >>

C15_BindingForms ==
    /\ [][/\ (InLease /\ TokIs(tokens, tpos, C15_Kw("Binding"))) =>
                C15_Reads(tpos, [lease EXCEPT !.binding_state =
                                                  C15_Value(tokens[tpos + 2].w)])
          /\ (InLease /\ TokIs(tokens, tpos, C15_Kw("Next"))) =>
                C15_Reads(tpos + 1, [lease EXCEPT !.next_binding_state =
                                                      <<C15_Value(tokens[tpos + 3].w)>>])
          /\ (InLease /\ TokIs(tokens, tpos, C15_Kw("Rewind"))) =>
                C15_Reads(tpos + 1, [lease EXCEPT !.rewind_binding_state =
                                                      <<C15_Value(tokens[tpos + 3].w)>>])]_vars
    /\ []((/\ outcome = "ok" /\ Written /\ Len(src) = 1
           /\ \A j \in 1..Len(src[1].stmts) :
                 src[1].stmts[j].field \in {"next_binding_state", "rewind_binding_state"})
          => ret[1][1].binding_state = "Free")

\* A block of next binding state active; alone: next is Active, the state still Free.
C15_Witness ==
    /\ outcome = "ok" /\ Written /\ Len(src) = 1
    /\ Len(src[1].stmts) = 1 /\ src[1].stmts[1].field = "next_binding_state"
    /\ ret[1][1].next_binding_state = <<"Active">>
    /\ ret[1][1].binding_state = "Free"
    /\ ret[1][1].rewind_binding_state = << >>

(***************************************************************************)
(* C16: for each date keyword the date sub-parser consumes exactly three   *)
(* tokens (weekday, date, time); if the next token is the statement        *)
(* terminator the statement ends there, otherwise that token is consumed   *)
(* as the timezone and the token after it must be the terminator. If the   *)
(* stream is exhausted at any of these points, or the token after the      *)
(* timezone is not the terminator, the parse fails with an error naming    *)
(* the field and the missing component, and no lease is returned.          *)
(***************************************************************************)
C16_Name(kw) == IF kw = "Starts" THEN "start" ELSE IF kw = "Ends" THEN "end"
                ELSE IF kw = "Tstp" THEN "tstp" ELSE IF kw = "Tsfp" THEN "tsfp"
                ELSE IF kw = "Atsfp" THEN "atsfp" ELSE "cltt"

C16_AtDate ==
    /\ InLease /\ HasTok(tokens, tpos) /\ tokens[tpos].kind = "Opt"
    /\ tokens[tpos].kw \in {"Starts", "Ends", "Tstp", "Tsfp", "Atsfp", "Cltt"}

C16_Fails(text) ==
    outcome' = "err" /\ errmsg' = <<text, C16_Name(tokens[tpos].kw)>> /\ ret' = << >>

\* The statement ends at the terminator q: parsing goes on after it, unless the
\* calendar type refuses the date.
C16_EndsAt(q) ==
    \/ outcome' = "none" /\ tpos' = q + 1
    \/ outcome' = "err" /\ ret' = << >>

C16_DateGrammar ==
    [][C16_AtDate =>
          LET p == tpos + 1 IN
          IF ~HasTok(tokens, p) THEN C16_Fails("Weekday for date expected")
          ELSE IF ~HasTok(tokens, p + 1) THEN C16_Fails("Date for date expected")
          ELSE IF ~HasTok(tokens, p + 2) THEN C16_Fails("Time for date expected")
          ELSE IF ~HasTok(tokens, p + 3) THEN C16_Fails("Timezone for date expected")
          ELSE IF tokens[p + 3].kind = "Endl" THEN C16_EndsAt(p + 3)
          ELSE IF ~HasTok(tokens, p + 4)
          THEN C16_Fails("Semicolon after timezone for date expected")
          ELSE IF tokens[p + 4].kind # "Endl"
          THEN C16_Fails("Expected semicolon after timezone for date, found")
          ELSE C16_EndsAt(p + 4)]_vars

(***************************************************************************)
(* C17: the top-level parser and the lease-body parser terminate: every    *)
(* iteration of the loops of parse_config and parse_lease consumes at      *)
(* least one token or returns, the read position never moves backwards     *)
(* nor past the end of the tokens, and a successful parse has consumed     *)
(* every token.                                                            *)
(***************************************************************************)
C17_Parsing == pc \in {"config", "lease"} /\ outcome = "none"

C17_ParsersTerminate ==
    /\ [][C17_Parsing =>
            /\ tpos' >= tpos
            /\ tpos' > tpos \/ outcome' \in {"ok", "err"}]_vars
    /\ [](tpos <= Len(tokens) + 1)
    /\ [](outcome = "ok" => tpos = Len(tokens) + 1)

\* Two blocks with a statement each parsed to the end of the tokens.
C17_Witness ==
    /\ outcome = "ok" /\ pc = "config"
    /\ Len(leases) = 2
    /\ Len(tokens) >= 14
    /\ tpos = Len(tokens) + 1

=============================================================================
